---------------------------- MODULE Spec2Model ----------------------------
(***************************************************************************)
(* git-feature: a linear command sequencer with four workflows (create,    *)
(* rebase, push, remove) behind a pre-flight check of `git remote -v`.     *)
(* Two implementations live in the repository: the packaged module         *)
(* onnx_git_feature/__main__.py and the top-level script git-feature.py.   *)
(* Text that the program matches with regular expressions is modelled as   *)
(* sequences of one-character strings; command tokens and printed lines    *)
(* are strings.                                                            *)
(***************************************************************************)
EXTENDS Integers, Sequences, FiniteSets, TLC

VARIABLES
    impl,          \* which implementation runs: "packaged" or "script"
    action,        \* args.action
    feature_name,  \* args.feature_name
    gitRemotes,    \* the repository's configured remotes (read by git remote -v)
    pc,            \* position of the process
    validated,     \* _repo_setup_checks has returned
    commands,      \* the list handed to _exec
    i,             \* _exec's loop index (0-based, as in the code)
    invoked,       \* workflow commands run so far, with their exit status
    queries,       \* query invocations made so far, with their exit status
    out,           \* lines printed on stdout
    err,           \* what the interpreter wrote on stderr (uncaught exception)
    exitStatus     \* <<status>> once the process has exited; <<>> while it runs

vars == <<impl, action, feature_name, gitRemotes, pc, validated, commands, i,
          invoked, queries, out, err, exitStatus>>

\* ------------------------------------------------------------------ bounds

\* Longest command list given to the sequencer on its own.
MaxCmds == 3

\* exitStatus holds the status the process exited with, and nothing before.
NotExited == <<>>

\* Exit statuses an external command can end with.
ExitStatuses == {0, 1, 128}

\* ------------------------------------------------------------------- text

Lower == {"a","b","c","d","e","f","g","h","i","j","k","l","m","n","o","p","q","r","s","t","u","v","w","x","y","z"}
Upper == {"A","B","C","D","E","F","G","H","I","J","K","L","M","N","O","P","Q","R","S","T","U","V","W","X","Y","Z"}
Digit == {"0","1","2","3","4","5","6","7","8","9"}

\* The class \s of Python's re (vertical tab left out: it has no TLA+ escape).
Whitespace == {" ", "\t", "\n", "\r", "\f"}

sUpstream == <<"u","p","s","t","r","e","a","m">>
sOrigin == <<"o","r","i","g","i","n">>
sUpstreamTab == <<"u","p","s","t","r","e","a","m","\t">>
sOriginTab == <<"o","r","i","g","i","n","\t">>
sFetchTag == <<" ","(","f","e","t","c","h",")">>
sPushTag == <<" ","(","p","u","s","h",")">>
sDotGit == <<".","g","i","t">>
sSlashOnnx == <<"/","o","n","n","x">>
sHttpsGithub == <<"h","t","t","p","s",":","/","/","g","i","t","h","u","b",".","c","o","m","/">>
sSshGithub == <<"g","i","t","@","g","i","t","h","u","b",".","c","o","m",":">>
sHttpsOnnxOnnx == <<"h","t","t","p","s",":","/","/","g","i","t","h","u","b",".","c","o","m","/","o","n","n","x","/","o","n","n","x">>
sSshOnnxOnnx == <<"g","i","t","@","g","i","t","h","u","b",".","c","o","m",":","o","n","n","x","/","o","n","n","x">>

\* --------------------------------------------------------- regular expressions

\* A pattern is a sequence of elements: a literal string, a character class
\* repeated (+ or *), an optional literal group, or the anchor $.
Lit(s) == [t |-> "lit", s |-> s, cs |-> {}]
Plus(cs) == [t |-> "plus", s |-> <<>>, cs |-> cs]
Star(cs) == [t |-> "star", s |-> <<>>, cs |-> cs]
Opt(s) == [t |-> "opt", s |-> s, cs |-> {}]
End == [t |-> "end", s |-> <<>>, cs |-> {}]

Drop(s, n) == SubSeq(s, n + 1, Len(s))

StartsWith(s, p) == Len(p) <= Len(s) /\ SubSeq(s, 1, Len(p)) = p

\* re.match(regex, item): the pattern matches at the start of the string
\* (backtracking over the repetitions); $ matches at the end of the string or
\* before a newline that ends it.
RECURSIVE Match(_, _)
Match(p, s) ==
    IF p = <<>> THEN TRUE
    ELSE LET e == Head(p)
             rest == Tail(p)
         IN  CASE e.t = "lit" -> StartsWith(s, e.s) /\ Match(rest, Drop(s, Len(e.s)))
               [] e.t = "opt" -> \/ StartsWith(s, e.s) /\ Match(rest, Drop(s, Len(e.s)))
                                 \/ Match(rest, s)
               [] e.t = "plus" -> \E k \in 1..Len(s) :
                                     /\ \A j \in 1..k : s[j] \in e.cs
                                     /\ Match(rest, Drop(s, k))
               [] e.t = "star" -> \E k \in 0..Len(s) :
                                     /\ \A j \in 1..k : s[j] \in e.cs
                                     /\ Match(rest, Drop(s, k))
               [] e.t = "end" -> (s = <<>> \/ s = <<"\n">>) /\ Match(rest, s)

\* _contains(list, regex)
_contains(list, regex) == \E k \in 1..Len(list) : Match(regex, list[k])

\* str.split('\n'): the pieces between the newlines, one more than there are
\* newlines (the last is empty when the text ends with a newline).
SplitLines(text) ==
    LET nl == {k \in 1..Len(text) : text[k] = "\n"}
        nth(j) == IF j = 0 THEN 0
                  ELSE IF j > Cardinality(nl) THEN Len(text) + 1
                  ELSE CHOOSE q \in nl : Cardinality({r \in nl : r < q}) = j - 1
    IN  [j \in 1..(Cardinality(nl) + 1) |-> SubSeq(text, nth(j - 1) + 1, nth(j) - 1)]

\* " ".join(command)
RECURSIVE Join(_)
Join(command) ==
    IF command = <<>> THEN ""
    ELSE IF Len(command) = 1 THEN command[1]
    ELSE command[1] \o " " \o Join(Tail(command))

\* ----------------------------------------------------------------- output

Rule == "-----------------------------------------------------------"

\* The lines _exec prints before it runs anything.
PlanLines(cmds) ==
    <<"# Will run command sequence:">>
    \o [k \in 1..Len(cmds) |-> "# $> " \o Join(cmds[k])]
    \o <<"", Rule, "Off we go...", Rule>>

\* FailureLines with the remaining commands listed from the failed one on
\* (range(i, len(commands)) for range(i + 1, len(commands))).
FailureLines_FromFailed(cmds, n) ==
    <<"", Rule, "This command failed:", "$> " \o Join(cmds[n + 1]), "">>
    \o (IF n = Len(cmds) - 1
        THEN <<"Please fix it and rerun it, then the action is finished.">>
        ELSE <<"Please fix, rerun it, and then, to finish the action, run:">>
             \o [k \in 1..(Len(cmds) - n) |-> "$> " \o Join(cmds[n + k])])
    \o <<Rule>>

\* The lines _exec prints when the command at 0-based position n fails.
FailureLines(cmds, n) ==
    <<"", Rule, "This command failed:", "$> " \o Join(cmds[n + 1]), "">>
    \o (IF n = Len(cmds) - 1
        THEN <<"Please fix it and rerun it, then the action is finished.">>
        ELSE <<"Please fix, rerun it, and then, to finish the action, run:">>
             \o [k \in 1..(Len(cmds) - 1 - n) |-> "$> " \o Join(cmds[n + 1 + k])])
    \o <<Rule>>

\* ------------------------------------------------------------ the sequencer

\* _exec, up to its loop: print the plan.
ExecBegin ==
    /\ pc = "exec"
    /\ out' = out \o PlanLines(commands)
    /\ i' = 0
    /\ pc' = "running"
    /\ UNCHANGED <<impl, action, feature_name, gitRemotes, validated, commands,
                   invoked, queries, err, exitStatus>>

\* ExecCommand without the exit(1) that ends the except block: the failure is
\* reported and the loop goes on.
ExecCommand_NoExit ==
    /\ pc = "running"
    /\ i < Len(commands)
    /\ \E status \in ExitStatuses :
          LET command == commands[i + 1]
              echo == <<"$> " \o Join(command)>>
          IN  /\ invoked' = Append(invoked, [pos |-> i, cmd |-> command, status |-> status])
              /\ out' = out \o echo \o (IF status = 0 THEN <<"">> ELSE FailureLines(commands, i))
              /\ i' = i + 1
              /\ UNCHANGED <<pc, exitStatus>>
    /\ UNCHANGED <<impl, action, feature_name, gitRemotes, validated, commands,
                   queries, err>>

\* ExecCommand that runs a failed command a second time before it gives up.
ExecCommand_RetryOnce ==
    /\ pc = "running"
    /\ i < Len(commands)
    /\ \E status \in ExitStatuses :
          LET command == commands[i + 1]
              echo == <<"$> " \o Join(command)>>
              tried == \E k \in 1..Len(invoked) : invoked[k].pos = i
          IN  /\ invoked' = Append(invoked, [pos |-> i, cmd |-> command, status |-> status])
              /\ IF status = 0
                 THEN /\ out' = out \o echo \o <<"">>
                      /\ i' = i + 1
                      /\ UNCHANGED <<pc, exitStatus>>
                 ELSE IF ~tried
                 THEN /\ out' = out \o echo
                      /\ UNCHANGED <<i, pc, exitStatus>>
                 ELSE /\ out' = out \o echo \o FailureLines(commands, i)
                      /\ pc' = "exited"
                      /\ exitStatus' = <<1>>
                      /\ UNCHANGED i
    /\ UNCHANGED <<impl, action, feature_name, gitRemotes, validated, commands,
                   queries, err>>

\* One iteration of _exec's loop: echo the command, run it, and either go on
\* to the next one or report the failure and exit(1).
ExecCommand ==
    /\ pc = "running"
    /\ i < Len(commands)
    /\ \E status \in ExitStatuses :
          LET command == commands[i + 1]
              echo == <<"$> " \o Join(command)>>
          IN  /\ invoked' = Append(invoked, [pos |-> i, cmd |-> command, status |-> status])
              /\ IF status = 0
                 THEN /\ out' = out \o echo \o <<"">>
                      /\ i' = i + 1
                      /\ UNCHANGED <<pc, exitStatus>>
                 ELSE /\ out' = out \o echo \o FailureLines(commands, i)
                      /\ pc' = "exited"
                      /\ exitStatus' = <<1>>
                      /\ UNCHANGED i
    /\ UNCHANGED <<impl, action, feature_name, gitRemotes, validated, commands,
                   queries, err>>

\* The loop is over: _exec returns, and with it the action, run() and main().
ExecReturn ==
    /\ pc = "running"
    /\ i = Len(commands)
    /\ pc' = "exited"
    /\ exitStatus' = <<0>>
    /\ UNCHANGED <<impl, action, feature_name, gitRemotes, validated, commands, i,
                   invoked, queries, out, err>>

\* ------------------------------------------------- the sequencer on its own

CmdPool == { <<"git", "fetch", "upstream">>,
             <<"git", "checkout", "upstream/master">>,
             <<"git", "push", "origin", ":f">> }

RECURSIVE ListsUpTo(_)
ListsUpTo(n) ==
    IF n = 0 THEN {<<>>}
    ELSE LET shorter == ListsUpTo(n - 1)
         IN  shorter \cup {Append(l, c) : l \in {x \in shorter : Len(x) = n - 1}, c \in CmdPool}

InitSeq ==
    /\ impl = "packaged"
    /\ action = "none"
    /\ feature_name = "f"
    /\ gitRemotes = <<>>
    /\ pc = "exec"
    /\ validated = TRUE
    /\ commands \in ListsUpTo(MaxCmds)
    /\ i = 0
    /\ invoked = <<>>
    /\ queries = <<>>
    /\ out = <<>>
    /\ err = <<>>
    /\ exitStatus = NotExited

NextSeq == ExecBegin \/ ExecCommand \/ ExecReturn

SeqSpec == InitSeq /\ [][NextSeq]_vars

\* Every external command exits, and the interpreter then takes its next step.
FairSeqSpec == SeqSpec /\ WF_vars(NextSeq)

\* ------------------------------------------------------- the remote validator

pHttpsOnnx == <<"h","t","t","p","s",":","/","/","g","i","t","h","u","b",".","c","o","m","/","o","n","n","x","/">>
pSshOnnx == <<"g","i","t","@","g","i","t","h","u","b",".","c","o","m",":","o","n","n","x","/">>
pHttpsCaffe2 == <<"h","t","t","p","s",":","/","/","g","i","t","h","u","b",".","c","o","m","/","c","a","f","f","e","2","/">>
pSshCaffe2 == <<"g","i","t","@","g","i","t","h","u","b",".","c","o","m",":","c","a","f","f","e","2","/">>

\* Each prefix is a regular expression whose only special character is the
\* escaped dot: it matches itself, read literally.
OFFICIAL_REPO_URL_PREFIXES == <<pHttpsOnnx, pSshOnnx, pHttpsCaffe2, pSshCaffe2>>

\* [a-zA-Z0-9\-]
NameChars == Lower \cup Upper \cup Digit \cup {"-"}

\* [a-zA-Z\-]
ScriptNameChars == Lower \cup Upper \cup {"-"}

\* "<name>\t%s[a-zA-Z0-9\-]+(\.git)? \(<tag>\)\s*$" % url_prefix
OfficialPattern(nameTab, url_prefix, tag) ==
    <<Lit(nameTab), Lit(url_prefix), Plus(NameChars), Opt(sDotGit), Lit(tag),
      Star(Whitespace), End>>

\* "origin\t<host>[a-zA-Z0-9\-]+/[a-zA-Z0-9\-]+(\.git)? \(<tag>\)\s*$"
ForkPattern(host, tag) ==
    <<Lit(sOriginTab), Lit(host), Plus(NameChars), Lit(<<"/">>), Plus(NameChars),
      Opt(sDotGit), Lit(tag), Star(Whitespace), End>>

\* "upstream\t<https://github.com/onnx/onnx | git@github.com:onnx/onnx>(\.git)? \(<tag>\)\s*$"
ScriptUpstreamPattern(repo, tag) ==
    <<Lit(sUpstreamTab), Lit(repo), Opt(sDotGit), Lit(tag), Star(Whitespace), End>>

\* "origin\t<host>[a-zA-Z\-]+/onnx(\.git)? \(<tag>\)\s*$"
ScriptOriginPattern(host, tag) ==
    <<Lit(sOriginTab), Lit(host), Plus(ScriptNameChars), Lit(sSlashOnnx),
      Opt(sDotGit), Lit(tag), Star(Whitespace), End>>

\* any([_contains(remotes, "<name>\t%s..." % p) for p in OFFICIAL_REPO_URL_PREFIXES])
MatchesOfficial(remotes, nameTab, tag) ==
    \E k \in 1..Len(OFFICIAL_REPO_URL_PREFIXES) :
        _contains(remotes, OfficialPattern(nameTab, OFFICIAL_REPO_URL_PREFIXES[k], tag))

MatchesFork(remotes, tag) ==
    \/ _contains(remotes, ForkPattern(sHttpsGithub, tag))
    \/ _contains(remotes, ForkPattern(sSshGithub, tag))

\* PackagedChecks without its last _check, the one that tells a fork from the
\* project.
PackagedChecks_NoForkCheck(remotes) ==
    << [ok  |-> MatchesOfficial(remotes, sUpstreamTab, sFetchTag),
        msg |-> "Remote repository 'upstream' not setup correctly (fetch)"],
       [ok  |-> MatchesOfficial(remotes, sUpstreamTab, sPushTag),
        msg |-> "Remote repository 'upstream' not setup correctly (push)"],
       [ok  |-> MatchesFork(remotes, sFetchTag),
        msg |-> "Remote repository 'origin' not setup correctly (fetch)"],
       [ok  |-> MatchesFork(remotes, sPushTag),
        msg |-> "Remote repository 'origin' not setup correctly (push)"] >>

\* The _check calls of the packaged module's _repo_setup_checks, in order.
PackagedChecks(remotes) ==
    << [ok  |-> MatchesOfficial(remotes, sUpstreamTab, sFetchTag),
        msg |-> "Remote repository 'upstream' not setup correctly (fetch)"],
       [ok  |-> MatchesOfficial(remotes, sUpstreamTab, sPushTag),
        msg |-> "Remote repository 'upstream' not setup correctly (push)"],
       [ok  |-> MatchesFork(remotes, sFetchTag),
        msg |-> "Remote repository 'origin' not setup correctly (fetch)"],
       [ok  |-> MatchesFork(remotes, sPushTag),
        msg |-> "Remote repository 'origin' not setup correctly (push)"],
       [ok  |-> ~MatchesOfficial(remotes, sOriginTab, sFetchTag),
        msg |-> "Remote repository 'origin' points to official repository. Please point it to your own fork."] >>

\* The _check calls of the script's _repo_setup_checks, in order.
ScriptChecks(remotes) ==
    << [ok  |-> \/ _contains(remotes, ScriptUpstreamPattern(sHttpsOnnxOnnx, sFetchTag))
                \/ _contains(remotes, ScriptUpstreamPattern(sSshOnnxOnnx, sFetchTag)),
        msg |-> "Remote repository 'upstream' not setup correctly"],
       [ok  |-> \/ _contains(remotes, ScriptUpstreamPattern(sHttpsOnnxOnnx, sPushTag))
                \/ _contains(remotes, ScriptUpstreamPattern(sSshOnnxOnnx, sPushTag)),
        msg |-> "Remote repository 'upstream' not setup correctly"],
       [ok  |-> \/ _contains(remotes, ScriptOriginPattern(sHttpsGithub, sFetchTag))
                \/ _contains(remotes, ScriptOriginPattern(sSshGithub, sFetchTag)),
        msg |-> "Remote repository 'origin' not setup correctly"],
       [ok  |-> \/ _contains(remotes, ScriptOriginPattern(sHttpsGithub, sPushTag))
                \/ _contains(remotes, ScriptOriginPattern(sSshGithub, sPushTag)),
        msg |-> "Remote repository 'origin' not setup correctly"] >>

\* The first _check whose condition is false, or 0: _check calls _error, and
\* _error exits, so the checks after it are not reached.
FirstFailed(checks) ==
    IF \A k \in 1..Len(checks) : checks[k].ok THEN 0
    ELSE CHOOSE k \in 1..Len(checks) :
            ~checks[k].ok /\ \A j \in 1..(k - 1) : checks[j].ok

\* What `git remote -v` prints: per remote a fetch line and a push line.
RECURSIVE RemoteOutput(_)
RemoteOutput(rs) ==
    IF rs = <<>> THEN <<>>
    ELSE LET r == Head(rs)
         IN  r.name \o <<"\t">> \o r.fetch \o sFetchTag \o <<"\n">>
             \o r.name \o <<"\t">> \o r.push \o sPushTag \o <<"\n">>
             \o RemoteOutput(Tail(rs))

\* subprocess.check_output(['git', 'remote', '-v']).decode('UTF-8').split('\n')
RemoteLines == SplitLines(RemoteOutput(gitRemotes))

\* A CalledProcessError nobody catches: the interpreter writes the traceback
\* to stderr and exits with status 1.
Uncaught(command) == <<"Traceback: subprocess.CalledProcessError: " \o Join(command)>>

GitRemoteV == <<"git", "remote", "-v">>

\* Exit statuses of a git query.
QueryStatuses == {0, 128}

\* RepoSetupChecks with an _error that prints and returns: the run goes on
\* after a failed check.
RepoSetupChecks_ErrorReturns ==
    /\ pc = "start"
    /\ \E status \in QueryStatuses :
          /\ queries' = Append(queries, [cmd |-> GitRemoteV, status |-> status, output |-> <<>>])
          /\ IF status # 0
             THEN /\ err' = err \o Uncaught(GitRemoteV)
                  /\ pc' = "exited"
                  /\ exitStatus' = <<1>>
                  /\ UNCHANGED <<out, validated>>
             ELSE LET checks == IF impl = "packaged" THEN PackagedChecks(RemoteLines)
                                ELSE ScriptChecks(RemoteLines)
                      bad == FirstFailed(checks)
                  IN  IF bad = 0
                      THEN /\ validated' = TRUE
                           /\ pc' = "action"
                           /\ UNCHANGED <<out, err, exitStatus>>
                      ELSE /\ out' = Append(out, "Error: " \o checks[bad].msg)
                           /\ validated' = TRUE
                           /\ pc' = "action"
                           /\ UNCHANGED <<err, exitStatus>>
    /\ UNCHANGED <<impl, action, feature_name, gitRemotes, commands, i, invoked>>

\* RepoSetupChecks with an _error that exits without printing.
RepoSetupChecks_SilentExit ==
    /\ pc = "start"
    /\ \E status \in QueryStatuses :
          /\ queries' = Append(queries, [cmd |-> GitRemoteV, status |-> status, output |-> <<>>])
          /\ IF status # 0
             THEN /\ err' = err \o Uncaught(GitRemoteV)
                  /\ pc' = "exited"
                  /\ exitStatus' = <<1>>
                  /\ UNCHANGED <<out, validated>>
             ELSE LET checks == IF impl = "packaged" THEN PackagedChecks(RemoteLines)
                                ELSE ScriptChecks(RemoteLines)
                      bad == FirstFailed(checks)
                  IN  IF bad = 0
                      THEN /\ validated' = TRUE
                           /\ pc' = "action"
                           /\ UNCHANGED <<out, err, exitStatus>>
                      ELSE /\ pc' = "exited"
                           /\ exitStatus' = <<1>>
                           /\ UNCHANGED <<out, err, validated>>
    /\ UNCHANGED <<impl, action, feature_name, gitRemotes, commands, i, invoked>>

\* _repo_setup_checks
RepoSetupChecks ==
    /\ pc = "start"
    /\ \E status \in QueryStatuses :
          /\ queries' = Append(queries, [cmd |-> GitRemoteV, status |-> status, output |-> <<>>])
          /\ IF status # 0
             THEN /\ err' = err \o Uncaught(GitRemoteV)
                  /\ pc' = "exited"
                  /\ exitStatus' = <<1>>
                  /\ UNCHANGED <<out, validated>>
             ELSE LET checks == IF impl = "packaged" THEN PackagedChecks(RemoteLines)
                                ELSE ScriptChecks(RemoteLines)
                      bad == FirstFailed(checks)
                  IN  IF bad = 0
                      THEN /\ validated' = TRUE
                           /\ pc' = "action"
                           /\ UNCHANGED <<out, err, exitStatus>>
                      ELSE /\ out' = Append(out, "Error: " \o checks[bad].msg)
                           /\ pc' = "exited"
                           /\ exitStatus' = <<1>>
                           /\ UNCHANGED <<err, validated>>
    /\ UNCHANGED <<impl, action, feature_name, gitRemotes, commands, i, invoked>>

\* ------------------------------------------------------------- the workflows

Header(line) == <<Rule, line, Rule>>

\* CreateFeatureAction with the push moved before the submodule update.
CreateFeatureAction_PushEarly ==
    /\ pc = "action"
    /\ action = "create"
    /\ out' = out \o Header("Creating feature " \o feature_name)
    /\ commands' = << <<"git", "fetch", "upstream">>,
                      <<"git", "checkout", "-b", feature_name, "upstream/master", "--no-track">>,
                      <<"git", "push", "--set-upstream", "origin", feature_name>>,
                      <<"git", "submodule", "update", "--init", "--recursive">> >>
    /\ pc' = "exec"
    /\ UNCHANGED <<impl, action, feature_name, gitRemotes, validated, i, invoked,
                   queries, err, exitStatus>>

\* _create_feature_action
CreateFeatureAction ==
    /\ pc = "action"
    /\ action = "create"
    /\ out' = out \o Header("Creating feature " \o feature_name)
    /\ commands' = << <<"git", "fetch", "upstream">>,
                      <<"git", "checkout", "-b", feature_name, "upstream/master", "--no-track">>,
                      <<"git", "submodule", "update", "--init", "--recursive">>,
                      <<"git", "push", "--set-upstream", "origin", feature_name>> >>
    /\ pc' = "exec"
    /\ UNCHANGED <<impl, action, feature_name, gitRemotes, validated, i, invoked,
                   queries, err, exitStatus>>

\* _rebase_feature_action: the two implementations differ in the last command.
RebaseFeatureAction ==
    /\ pc = "action"
    /\ action = "rebase"
    /\ out' = out \o Header("Rebasing feature " \o feature_name \o " on top of upstream/master")
    /\ commands' = << <<"git", "fetch", "upstream">>,
                      <<"git", "checkout", feature_name>>,
                      <<"git", "rebase", "upstream/master">>,
                      IF impl = "packaged"
                      THEN <<"git", "submodule", "update", "--init", "--recursive">>
                      ELSE <<"git", "submodule", "--init", "--recursive">> >>
    /\ pc' = "exec"
    /\ UNCHANGED <<impl, action, feature_name, gitRemotes, validated, i, invoked,
                   queries, err, exitStatus>>

\* _push_feature_action
PushFeatureAction ==
    /\ pc = "action"
    /\ action = "push"
    /\ out' = out \o Header("Pushing feature " \o feature_name \o " to origin")
    /\ commands' = << <<"git", "push", "--set-upstream", "origin", feature_name>> >>
    /\ pc' = "exec"
    /\ UNCHANGED <<impl, action, feature_name, gitRemotes, validated, i, invoked,
                   queries, err, exitStatus>>

\* str.strip() of a query's output, given as its pieces: whitespace pieces at
\* both ends go, the rest is concatenated.
RECURSIVE Concat(_)
Concat(pieces) == IF pieces = <<>> THEN "" ELSE Head(pieces) \o Concat(Tail(pieces))

RECURSIVE StripLeft(_)
StripLeft(pieces) ==
    IF pieces # <<>> /\ Head(pieces) \in Whitespace THEN StripLeft(Tail(pieces)) ELSE pieces

RECURSIVE StripRight(_)
StripRight(pieces) ==
    IF pieces # <<>> /\ pieces[Len(pieces)] \in Whitespace
    THEN StripRight(SubSeq(pieces, 1, Len(pieces) - 1))
    ELSE pieces

Strip(pieces) == Concat(StripRight(StripLeft(pieces)))

Features == {"myfeature", "fix-42"}

\* What `git rev-parse --abbrev-ref HEAD` can print.
CurrentBranchOutputs == { <<b, "\n">> : b \in Features \cup {"master"} }

\* What `git ls-remote --heads origin F` can print: nothing, or the head.
LsRemoteOutputs(F) == { <<>>, <<"0a1b2c", "\t", "refs/heads/" \o F, "\n">> }

GetCurrentBranch == <<"git", "rev-parse", "--abbrev-ref", "HEAD">>
VerifyBranch(F) == <<"git", "rev-parse", "--verify", F>>
LsRemote(F) == <<"git", "ls-remote", "--heads", "origin", F>>

\* _remove_feature_action, with its three queries: _get_current_branch and
\* _remote_has_branch let a CalledProcessError through, _local_has_branch
\* catches it and answers False.
RemoveFeatureAction ==
    /\ pc = "action"
    /\ action = "remove"
    /\ \E s1 \in QueryStatuses, o1 \in CurrentBranchOutputs,
          s2 \in QueryStatuses,
          s3 \in QueryStatuses, o3 \in LsRemoteOutputs(feature_name) :
          LET F == feature_name
              head == Header("Removing feature " \o F)
              q1 == [cmd |-> GetCurrentBranch, status |-> s1,
                     output |-> IF s1 = 0 THEN o1 ELSE <<>>]
              q2 == [cmd |-> VerifyBranch(F), status |-> s2, output |-> <<>>]
              q3 == [cmd |-> LsRemote(F), status |-> s3,
                     output |-> IF s3 = 0 THEN o3 ELSE <<>>]
              c1 == IF Strip(q1.output) = F
                    THEN << <<"git", "checkout", "upstream/master">> >> ELSE <<>>
              c2 == IF s2 = 0 THEN << <<"git", "branch", "-d", F>> >> ELSE <<>>
              c3 == IF Strip(q3.output) # ""
                    THEN << <<"git", "push", "origin", ":" \o F>> >> ELSE <<>>
              cmds == c1 \o c2 \o c3
          IN  IF s1 # 0
              THEN /\ queries' = queries \o <<q1>>
                   /\ out' = out \o head
                   /\ err' = err \o Uncaught(GetCurrentBranch)
                   /\ pc' = "exited"
                   /\ exitStatus' = <<1>>
                   /\ UNCHANGED commands
              ELSE IF s3 # 0
              THEN /\ queries' = queries \o <<q1, q2, q3>>
                   /\ out' = out \o head
                   /\ err' = err \o Uncaught(LsRemote(F))
                   /\ pc' = "exited"
                   /\ exitStatus' = <<1>>
                   /\ UNCHANGED commands
              ELSE IF Len(cmds) = 0
              THEN /\ queries' = queries \o <<q1, q2, q3>>
                   /\ out' = out \o head \o
                         <<"Error: Branch '" \o F \o
                           "' not found, neither in local repository nor in 'origin' remote">>
                   /\ pc' = "exited"
                   /\ exitStatus' = <<1>>
                   /\ UNCHANGED <<commands, err>>
              ELSE /\ queries' = queries \o <<q1, q2, q3>>
                   /\ out' = out \o head
                   /\ commands' = cmds
                   /\ pc' = "exec"
                   /\ UNCHANGED <<err, exitStatus>>
    /\ UNCHANGED <<impl, action, feature_name, gitRemotes, validated, i, invoked>>

\* ------------------------------------------------------------ a program run

urlOnnxHttpsGit == <<"h","t","t","p","s",":","/","/","g","i","t","h","u","b",".","c","o","m","/","o","n","n","x","/","o","n","n","x",".","g","i","t">>
urlCaffe2Ssh == <<"g","i","t","@","g","i","t","h","u","b",".","c","o","m",":","c","a","f","f","e","2","/","c","a","f","f","e","2">>
urlAliceHttps == <<"h","t","t","p","s",":","/","/","g","i","t","h","u","b",".","c","o","m","/","a","l","i","c","e","/","o","n","n","x">>
urlDotless == <<"h","t","t","p","s",":","/","/","g","i","t","h","u","b","X","c","o","m","/","o","n","n","x","/","o","n","n","x">>
urlBobSshGit == <<"g","i","t","@","g","i","t","h","u","b",".","c","o","m",":","b","o","b","-","4","2","/","o","n","n","x","-","f","o","r","k",".","g","i","t">>
urlGitlab == <<"h","t","t","p","s",":","/","/","g","i","t","l","a","b",".","c","o","m","/","a","l","i","c","e","/","o","n","n","x">>

\* URLs the upstream remote is tried with, and those of origin.
UpstreamUrls == {urlOnnxHttpsGit, urlCaffe2Ssh, urlAliceHttps, urlDotless}
OriginUrls == {urlAliceHttps, urlBobSshGit, urlOnnxHttpsGit, urlCaffe2Ssh, urlGitlab}

\* Remote configurations: origin with a fetch and a push URL, and upstream
\* likewise or not configured at all (git lists remotes by name).
RemoteConfigs ==
    { <<[name |-> sOrigin, fetch |-> f, push |-> p]>> \o u :
        f \in OriginUrls, p \in OriginUrls,
        u \in {<<>>} \cup { <<[name |-> sUpstream, fetch |-> uf, push |-> up]>> :
                              uf \in UpstreamUrls, up \in UpstreamUrls } }

Actions == {"create", "rebase", "push", "remove"}

\* GitFeatureApp() has parsed the arguments; the packaged module printed
\* sys.version_info when it was imported.
Init ==
    /\ impl \in {"packaged", "script"}
    /\ action \in Actions
    /\ feature_name \in Features
    /\ gitRemotes \in RemoteConfigs
    /\ pc = "start"
    /\ validated = FALSE
    /\ commands = <<>>
    /\ i = 0
    /\ invoked = <<>>
    /\ queries = <<>>
    /\ out = IF impl = "packaged" THEN <<"sys.version_info">> ELSE <<>>
    /\ err = <<>>
    /\ exitStatus = NotExited

Next ==
    \/ RepoSetupChecks
    \/ CreateFeatureAction
    \/ RebaseFeatureAction
    \/ PushFeatureAction
    \/ RemoveFeatureAction
    \/ ExecBegin
    \/ ExecCommand
    \/ ExecReturn

Spec == Init /\ [][Next]_vars

\* ------------------------------------------------ claims about the sequencer

Last(s) == s[Len(s)]

AllZero(log) == \A k \in 1..Len(log) : log[k].status = 0

\* C1: the commands invoked so far are always the first Len(invoked) commands
\* of the list, in list order; every command but the last invoked one has
\* exited zero, so a command is invoked only once its predecessor exited zero
\* and nothing is invoked after a command that exited non-zero.
C1_InvokedIsZeroPrefix ==
    /\ Len(invoked) <= Len(commands)
    /\ \A k \in 1..Len(invoked) :
          /\ invoked[k].pos = k - 1
          /\ invoked[k].cmd = commands[k]
          /\ k < Len(invoked) => invoked[k].status = 0
    /\ (invoked # <<>> /\ Last(invoked).status # 0) => pc = "exited"

\* A run that failed at the second of three commands: the third never ran.
C1_Witness ==
    /\ pc = "exited"
    /\ Len(commands) = 3
    /\ Len(invoked) = 2
    /\ invoked[2].status # 0

\* C2: after a failure at position f of n commands the output ends with the
\* report: the failed command, then either the rerun instruction alone
\* (f = n-1) or the commands f+1..n-1, one line each, in list order, as the
\* space-joined tokens of the list.
C2_FailureReport ==
    (pc = "exited" /\ exitStatus = <<1>> /\ invoked # <<>>) =>
        LET n == Len(commands)
            f == Last(invoked).pos
            rem == n - 1 - f
            L == 7 + rem
            tail == SubSeq(out, Len(out) - L + 1, Len(out))
        IN  /\ Len(out) > L
            /\ out[Len(out) - L] = "$> " \o Join(commands[f + 1])
            /\ tail[1] = ""
            /\ tail[2] = Rule
            /\ tail[3] = "This command failed:"
            /\ tail[4] = "$> " \o Join(commands[f + 1])
            /\ tail[5] = ""
            /\ IF rem = 0
               THEN tail[6] = "Please fix it and rerun it, then the action is finished."
               ELSE /\ tail[6] = "Please fix, rerun it, and then, to finish the action, run:"
                    /\ \A k \in 1..rem : tail[6 + k] = "$> " \o Join(commands[f + 1 + k])
            /\ tail[L] = Rule

\* A failure at the first of three commands: two commands remain to be listed.
C2_Witness ==
    /\ pc = "exited"
    /\ exitStatus = <<1>>
    /\ Len(commands) = 3
    /\ Len(invoked) = 1
    /\ commands[2] # commands[3]

\* What C10 says of every state of a sequencer run.
C10_Terminal ==
    LET n == Len(commands)
    IN  /\ pc = "exec" => invoked = <<>>
        /\ invoked # <<>> =>
              /\ Len(out) >= n + 5
              /\ out[1] = "# Will run command sequence:"
              /\ \A k \in 1..n : out[1 + k] = "# $> " \o Join(commands[k])
              /\ out[n + 3] = Rule
        /\ \A a, b \in 1..Len(invoked) : a # b => invoked[a].pos # invoked[b].pos
        /\ pc = "exited" =>
              /\ exitStatus \in {<<0>>, <<1>>}
              /\ exitStatus = <<0>> <=> (Len(invoked) = n /\ AllZero(invoked))
              /\ exitStatus = <<1>> =>
                    /\ Len(invoked) = i + 1
                    /\ invoked[i + 1].pos = i
                    /\ invoked[i + 1].status # 0
                    /\ \A k \in 1..i : invoked[k].status = 0

\* C10: every sequencer run ends, and stays, in one terminal state: DONE
\* (exit 0) exactly when all n commands ran and exited zero, FAILED(i) (exit 1)
\* after i+1 invocations with i the first command that exited non-zero; the
\* plan is printed before the first invocation and no position runs twice.
C10_Terminates == <>[](pc = "exited") /\ []C10_Terminal

\* DONE after three commands.
C10_Witness ==
    /\ pc = "exited"
    /\ exitStatus = <<0>>
    /\ Len(commands) = 3
    /\ Len(invoked) = 3

\* ------------------------------------------------ claims about a program run

\* `git remote -v` has run and exited zero.
RemotesRead == queries # <<>> /\ queries[1].status = 0

\* Every check of the implementation's validator holds of the configuration.
ValidatorPasses ==
    FirstFailed(IF impl = "packaged" THEN PackagedChecks(RemoteLines)
                ELSE ScriptChecks(RemoteLines)) = 0

ValidatorErrors ==
    { "Error: Remote repository 'upstream' not setup correctly (fetch)",
      "Error: Remote repository 'upstream' not setup correctly (push)",
      "Error: Remote repository 'origin' not setup correctly (fetch)",
      "Error: Remote repository 'origin' not setup correctly (push)",
      "Error: Remote repository 'origin' points to official repository. Please point it to your own fork.",
      "Error: Remote repository 'upstream' not setup correctly",
      "Error: Remote repository 'origin' not setup correctly" }

\* The run ended in the validator: an error line, exit status 1, and no
\* workflow: no list built, no plan printed, no command invoked.
RejectedByValidator ==
    /\ pc = "exited"
    /\ exitStatus = <<1>>
    /\ out # <<>> /\ Last(out) \in ValidatorErrors
    /\ ~validated
    /\ commands = <<>>
    /\ invoked = <<>>
    /\ \A k \in 1..Len(out) : out[k] # "# Will run command sequence:"

UpstreamLinesAccepted ==
    IF impl = "packaged"
    THEN /\ MatchesOfficial(RemoteLines, sUpstreamTab, sFetchTag)
         /\ MatchesOfficial(RemoteLines, sUpstreamTab, sPushTag)
    ELSE /\ ScriptChecks(RemoteLines)[1].ok
         /\ ScriptChecks(RemoteLines)[2].ok

\* C3: whatever the action, once git remote -v has answered, a configuration
\* whose upstream fetch or push line matches no accepted pattern, or that
\* fails any other check, ends the run in the validator (error line, exit 1,
\* nothing of the workflow run); and the workflow is reached (a list built, a
\* command invoked) only when every check passed.
C3_ValidatorFirst ==
    /\ (pc # "start" /\ RemotesRead /\ (~UpstreamLinesAccepted \/ ~ValidatorPasses))
          => RejectedByValidator
    /\ (pc \in {"action", "exec", "running"} \/ commands # <<>> \/ invoked # <<>>)
          => (validated /\ RemotesRead /\ ValidatorPasses)

\* create stopped by an upstream fetch URL that is a fork, not the project.
C3_Witness ==
    /\ impl = "packaged"
    /\ action = "create"
    /\ Len(gitRemotes) = 2
    /\ gitRemotes[2].fetch = urlAliceHttps
    /\ pc = "exited"
    /\ exitStatus = <<1>>
    /\ invoked = <<>>
    /\ Last(out) = "Error: Remote repository 'upstream' not setup correctly (fetch)"

\* URLs of the canonical projects among those origin is tried with.
CanonicalUrls == {urlOnnxHttpsGit, urlCaffe2Ssh}

\* C4: in the packaged module, once git remote -v has answered, a
\* configuration whose origin fetch line is a canonical-project URL is
\* rejected by the validator, whatever the other three lines are.
C4_ForkOnly ==
    (/\ impl = "packaged"
     /\ pc # "start"
     /\ RemotesRead
     /\ \/ MatchesOfficial(RemoteLines, sOriginTab, sFetchTag)
        \/ gitRemotes[1].fetch \in CanonicalUrls)
        => RejectedByValidator

\* Upstream is the project, origin pushes to a fork but fetches from the
\* project: only the fork-only check rejects it.
C4_Witness ==
    /\ impl = "packaged"
    /\ Len(gitRemotes) = 2
    /\ gitRemotes[2].fetch = urlOnnxHttpsGit
    /\ gitRemotes[2].push = urlCaffe2Ssh
    /\ gitRemotes[1].fetch = urlOnnxHttpsGit
    /\ gitRemotes[1].push = urlAliceHttps
    /\ pc = "exited"
    /\ Last(out) = "Error: Remote repository 'origin' points to official repository. Please point it to your own fork."

\* The three query results of a remove run whose queries all completed.
RemoveQueried == action = "remove" /\ Len(queries) = 4 /\ queries[2].status = 0 /\ queries[4].status = 0
CurrentIsFeature == queries[2].output = <<feature_name, "\n">>
ExistsLocally == queries[3].status = 0
ExistsOnOrigin == queries[4].output # <<>>

NotFoundError ==
    "Error: Branch '" \o feature_name \o "' not found, neither in local repository nor in 'origin' remote"

\* C5: remove builds [checkout upstream/master iff the current branch is F,
\* branch -d F] when F exists only locally, [checkout iff current, push
\* origin :F] when it exists only on origin, and when it exists in neither
\* place ends with the not-found error, exit 1 and no list for the sequencer.
C5_RemoveLists ==
    RemoveQueried =>
        LET F == feature_name
            checkout == IF CurrentIsFeature
                        THEN << <<"git", "checkout", "upstream/master">> >> ELSE <<>>
        IN  /\ (ExistsLocally /\ ~ExistsOnOrigin)
                  => commands = checkout \o << <<"git", "branch", "-d", F>> >>
            /\ (~ExistsLocally /\ ExistsOnOrigin)
                  => commands = checkout \o << <<"git", "push", "origin", ":" \o F>> >>
            /\ (~ExistsLocally /\ ~ExistsOnOrigin)
                  => /\ pc = "exited"
                     /\ exitStatus = <<1>>
                     /\ Last(out) = NotFoundError
                     /\ commands = <<>>
                     /\ invoked = <<>>

\* C6: rebase hands the sequencer [fetch upstream, checkout F, rebase
\* upstream/master, submodule update --init --recursive], in the packaged
\* module and in the script alike.
C6_RebaseList ==
    (action = "rebase" /\ pc \in {"exec", "running", "exited"} /\ validated) =>
        commands = << <<"git", "fetch", "upstream">>,
                      <<"git", "checkout", feature_name>>,
                      <<"git", "rebase", "upstream/master">>,
                      <<"git", "submodule", "update", "--init", "--recursive">> >>

PushCommand == <<"git", "push", "--set-upstream", "origin", feature_name>>

\* C7: create hands the sequencer [fetch upstream, checkout -b F
\* upstream/master --no-track, submodule update --init --recursive, push
\* --set-upstream origin F]; the push is the fourth command invoked, after the
\* other three ran in that order and exited zero.
C7_CreateList ==
    (action = "create" /\ pc \in {"exec", "running", "exited"} /\ validated) =>
        /\ commands = << <<"git", "fetch", "upstream">>,
                         <<"git", "checkout", "-b", feature_name, "upstream/master", "--no-track">>,
                         <<"git", "submodule", "update", "--init", "--recursive">>,
                         PushCommand >>
        /\ \A k \in 1..Len(invoked) :
              invoked[k].cmd = PushCommand =>
                 /\ k = 4
                 /\ invoked[1].cmd = <<"git", "fetch", "upstream">>
                 /\ invoked[2].cmd = <<"git", "checkout", "-b", feature_name, "upstream/master", "--no-track">>
                 /\ invoked[3].cmd = <<"git", "submodule", "update", "--init", "--recursive">>
                 /\ \A j \in 1..3 : invoked[j].status = 0

\* create ran through to the push.
C7_Witness ==
    /\ action = "create"
    /\ pc = "exited"
    /\ Len(invoked) = 4
    /\ invoked[4].cmd = PushCommand

\* C8: the run's exit status is 0 exactly when validation passed and the
\* whole command list ran with every command exiting zero; it is 1 after a
\* failed validator check, after a command that exited non-zero, and when
\* remove found F neither locally nor on origin.
C8_ExitStatus ==
    pc = "exited" =>
        /\ exitStatus = <<0>> <=>
              (validated /\ commands # <<>> /\ Len(invoked) = Len(commands) /\ AllZero(invoked))
        /\ (RemotesRead /\ ~validated) => exitStatus = <<1>>
        /\ ~AllZero(invoked) => exitStatus = <<1>>
        /\ (RemoveQueried /\ ~ExistsLocally /\ ~ExistsOnOrigin) => exitStatus = <<1>>

\* The failure report of _exec is on stdout.
ReportPrinted == \E k \in 1..Len(out) : out[k] = "This command failed:"

\* The program printed a message of its own for the failure.
MessagePrinted ==
    out # <<>> /\ (Last(out) \in ValidatorErrors \/ Last(out) = NotFoundError \/ ReportPrinted)

AQueryFailed == \E k \in 1..Len(queries) : queries[k].status # 0

UncaughtQueries == {GitRemoteV, GetCurrentBranch, LsRemote(feature_name)}

=============================================================================
